---- MODULE Spec2Model ----
(***************************************************************************)
(* The Global Homelessness Dashboard (src/app.py): a Streamlit script that *)
(* is executed top to bottom on every user interaction.  The model follows *)
(* one server process: the remote CSV, the st.cache_data entry of          *)
(* load_data, the widget state of a session, and the script's variables    *)
(* and rendered elements as the run advances block by block.               *)
(***************************************************************************)
EXTENDS Integers, Sequences, FiniteSets, TLC

\* Bounds of the model.
MaxRows == 3          \* rows of the CSV
MaxTotal == 2         \* the 'total' column takes the values 1..MaxTotal
MaxOddRows == 2       \* rows of a CSV whose header deviates from the expected one
MaxFetch == 2         \* the count of pd.read_csv calls saturates here

\* The countries of the modelled CSV, in the order pandas sorts the keys.
SortedCountries == <<"Atlantis", "Japan">>

Countries == {SortedCountries[i] : i \in 1..Len(SortedCountries)}

Totals == 1..MaxTotal

\* The columns the script reads by name, or passes by name to a chart.
RequiredColumns ==
  {"country", "total", "individuals", "family_households", "veterans",
   "unaccompanied_youth", "latitude", "longitude"}

\* A header cell: its name, and whether it carries surrounding whitespace.
Col(n, p) == [name |-> n, padded |-> p]

CleanHeader == {Col(n, FALSE) : n \in RequiredColumns}

\* Headers that deviate: a padded name, and one of three columns missing.
OddHeaders ==
  { (CleanHeader \ {Col("total", FALSE)}) \cup {Col("total", TRUE)},
    CleanHeader \ {Col("latitude", FALSE)},
    CleanHeader \ {Col("total", FALSE)},
    CleanHeader \ {Col("country", FALSE)} }

Row == [country : Countries, total : Totals]

RowsUpTo(n) == UNION {[1..k -> Row] : k \in 0..n}

\* pd.DataFrame(): no columns, no rows.
EmptyFrame == [columns |-> {}, rows |-> <<>>]

\* data.columns.str.strip()
strip(columns) == {Col(c.name, FALSE) : c \in columns}

\* df['name'] raises KeyError unless the exact label is a column.
HasColumn(df, n) == Col(n, FALSE) \in df.columns

\* DataFrame.empty: some axis has length 0.
empty(df) == df.columns = {} \/ df.rows = <<>>

\* The body of load_data: read, strip the header; on any exception st.error
\* and an empty DataFrame.
load_data(src) ==
  IF src.ok
    THEN [value |-> [columns |-> strip(src.header), rows |-> src.rows],
          messages |-> <<>>]
    ELSE [value |-> EmptyFrame, messages |-> <<"error">>]

NotCached == [present |-> FALSE, value |-> EmptyFrame, messages |-> <<>>]

\* load_data without the decorator: every call runs the body.
cache_data_off(c, src) ==
  LET r == load_data(src)
  IN [cache |-> [present |-> TRUE, value |-> r.value, messages |-> r.messages],
      fetched |-> TRUE]

\* @st.cache_data on a function without parameters: the first call runs the
\* body and stores its value and the elements it emitted; later calls return
\* the stored value and replay the elements.
cache_data(c, src) ==
  IF c.present
    THEN [cache |-> c, fetched |-> FALSE]
    ELSE LET r == load_data(src)
         IN [cache |-> [present |-> TRUE, value |-> r.value, messages |-> r.messages],
             fetched |-> TRUE]

\* Series.min() / Series.max() of a non-empty column.
SeriesMin(rows) ==
  CHOOSE m \in {rows[i].total : i \in 1..Len(rows)} :
    \A i \in 1..Len(rows) : m <= rows[i].total

SeriesMax(rows) ==
  CHOOSE m \in {rows[i].total : i \in 1..Len(rows)} :
    \A i \in 1..Len(rows) : m >= rows[i].total

\* Series.unique(): the distinct values in order of first appearance.
RECURSIVE unique(_)
unique(s) ==
  IF s = <<>> THEN <<>>
  ELSE LET front == unique(SubSeq(s, 1, Len(s) - 1))
           last == s[Len(s)]
       IN IF \E i \in 1..Len(front) : front[i] = last
            THEN front ELSE Append(front, last)

CountryColumn(rows) == [i \in 1..Len(rows) |-> rows[i].country]

\* Series.between(left, right) with an exclusive upper end.
between_exclusive(x, left, right) == left <= x /\ x < right

\* Series.between(left, right): inclusive="both" is the default.
between(x, left, right) == left <= x /\ x <= right

\* Series.isin(values)
isin(x, values) == x \in values

\* df[mask]: the rows whose mask entry is True, in their order, as a new frame.
RECURSIVE BooleanIndex(_, _)
BooleanIndex(rows, mask) ==
  IF rows = <<>> THEN <<>>
  ELSE LET n == Len(rows)
           front == BooleanIndex(SubSeq(rows, 1, n - 1), SubSeq(mask, 1, n - 1))
       IN IF mask[n] THEN Append(front, rows[n]) ELSE front

\* The filter with the test selected_countries == ["All"].
filter_all_only(rows, range, selected) ==
  IF selected = {"All"}
    THEN BooleanIndex(rows,
           [i \in 1..Len(rows) |-> between(rows[i].total, range[1], range[2])])
    ELSE BooleanIndex(rows,
           [i \in 1..Len(rows) |->
              between(rows[i].total, range[1], range[2])
              /\ isin(rows[i].country, selected)])

\* The if/else that computes filtered_data.
filter(rows, range, selected) ==
  IF "All" \in selected
    THEN BooleanIndex(rows,
           [i \in 1..Len(rows) |-> between(rows[i].total, range[1], range[2])])
    ELSE BooleanIndex(rows,
           [i \in 1..Len(rows) |->
              between(rows[i].total, range[1], range[2])
              /\ isin(rows[i].country, selected)])

\* The sum of the 'total' entries of the rows of one country.
RECURSIVE GroupTotal(_, _)
GroupTotal(rows, c) ==
  IF rows = <<>> THEN 0
  ELSE GroupTotal(SubSeq(rows, 1, Len(rows) - 1), c)
       + (IF rows[Len(rows)].country = c THEN rows[Len(rows)].total ELSE 0)

\* The last 'total' entry of the rows of one country.
RECURSIVE GroupLast(_, _)
GroupLast(rows, c) ==
  IF rows = <<>> THEN 0
  ELSE IF rows[Len(rows)].country = c THEN rows[Len(rows)].total
       ELSE GroupLast(SubSeq(rows, 1, Len(rows) - 1), c)

\* groupby('country')['total'] keeping one entry per country instead of the sum.
groupby_last(rows) ==
  LET present == [i \in 1..Len(SortedCountries) |->
                    \E k \in 1..Len(rows) : rows[k].country = SortedCountries[i]]
      keys == BooleanIndex(SortedCountries, present)
  IN [i \in 1..Len(keys) |-> [country |-> keys[i], total |-> GroupLast(rows, keys[i])]]

\* groupby('country')['total'].sum(): one entry per country that occurs, the
\* entries in sorted key order (sort=True is the default of groupby).
groupby_sum(rows) ==
  LET present == [i \in 1..Len(SortedCountries) |->
                    \E k \in 1..Len(rows) : rows[k].country = SortedCountries[i]]
      keys == BooleanIndex(SortedCountries, present)
  IN [i \in 1..Len(keys) |-> [country |-> keys[i], total |-> GroupTotal(rows, keys[i])]]

\* Selection of the entries by rising total.
RECURSIVE SelectAscending(_, _, _)
SelectAscending(s, left, tie) ==
  IF left = {} THEN <<>>
  ELSE LET top == CHOOSE i \in left : \A j \in left :
                    \/ s[i].total < s[j].total
                    \/ (s[i].total = s[j].total /\ tie[i] <= tie[j])
       IN <<s[top]>> \o SelectAscending(s, left \ {top}, tie)

\* sort_values() with the default ascending=True.
sort_values_ascending(s, tie) == SelectAscending(s, 1..Len(s), tie)

\* Selection of the entries by falling total; among equal totals the entry
\* whose position the build's sort ranks first.
RECURSIVE SelectDescending(_, _, _)
SelectDescending(s, left, tie) ==
  IF left = {} THEN <<>>
  ELSE LET top == CHOOSE i \in left : \A j \in left :
                    \/ s[i].total > s[j].total
                    \/ (s[i].total = s[j].total /\ tie[i] <= tie[j])
       IN <<s[top]>> \o SelectDescending(s, left \ {top}, tie)

\* sort_values(ascending=False).  kind defaults to 'quicksort', which is not
\* a stable sort: where each of several equal totals lands is decided by the
\* sort routine of the build, as a function of the positions, here `tie`.
sort_values(s, tie) == SelectDescending(s, 1..Len(s), tie)

\* The ways a build can rank the positions of equal totals.
TieOrders ==
  {t \in [1..Len(SortedCountries) -> 1..Len(SortedCountries)] :
     \A i, j \in 1..Len(SortedCountries) : t[i] = t[j] => i = j}

\* The DataFrame literal bound to `data` before the treemap.
RegionTable ==
  << [country |-> "India", region |-> "Asia"],
     [country |-> "Japan", region |-> "Asia"],
     [country |-> "United Kingdom", region |-> "Europe"],
     [country |-> "Germany", region |-> "Europe"],
     [country |-> "Canada", region |-> "North America"],
     [country |-> "Mexico", region |-> "North America"],
     [country |-> "Brazil", region |-> "South America"],
     [country |-> "South Africa", region |-> "Africa"],
     [country |-> "Australia", region |-> "Oceania"] >>

\* The region table restricted to the countries of the filtered rows.
treemap_joined(filtered, table) ==
  BooleanIndex(table,
    [i \in 1..Len(table) |->
       \E k \in 1..Len(filtered) : filtered[k].country = table[i].country])

\* What px.treemap is given: the frame `data` names at that point, which is
\* the region table; filtered_data is not used.
treemap_input(filtered, table) == table

\* `data = pd.DataFrame({...})` written through to the frame load_data returned.
rebind_in_place(cached, new) == new

\* What the cached frame is after `data = pd.DataFrame({...})`: the statement
\* binds the name to a new object and leaves the loaded frame as it was.
rebind(cached, new) == cached

\* The countries of the pie chart.
PieCountries == {"United States", "Australia", "Japan"}

\* filtered_data[filtered_data['country'].isin([...])]
selected_countries_data(filtered) ==
  BooleanIndex(filtered,
    [i \in 1..Len(filtered) |-> isin(filtered[i].country, PieCountries)])

\* A missing and an infinite entry of the 'total' column, as the model writes
\* them; no range of the slider contains either.
NaN == -1

Inf == -2

\* filtered_data['total'].dropna(), then the entries np.isfinite accepts.
clean_data(filtered) ==
  LET totals == [i \in 1..Len(filtered) |-> filtered[i].total]
      notna == BooleanIndex(totals, [i \in 1..Len(totals) |-> totals[i] # NaN])
  IN BooleanIndex(notna, [i \in 1..Len(notna) |-> notna[i] # Inf /\ notna[i] # NaN])

VARIABLES
  source,              \* the CSV behind the URL: does the read succeed, header, rows
  tieOrder,            \* how the build's sort ranks positions of equal totals
  cache,               \* the st.cache_data entry of load_data
  fetches,             \* calls of pd.read_csv so far
  slider_state,        \* the session's value of the range slider
  multiselect_state,   \* the session's value of the country multi-select
  pc,                  \* the block of the script that runs next
  exc,                 \* the uncaught exception that ended the run
  rendered,            \* the elements the run has put on the page, in order
  data,                \* the script's variables
  homeless_range,
  all_countries,
  selected_countries,
  filtered_data,
  views,               \* per chart block: what it showed and the data it was given
  expect               \* the result of the run before a plain rerun

vars ==
  <<source, tieOrder, cache, fetches, slider_state, multiselect_state, pc, exc,
    rendered, data, homeless_range, all_countries, selected_countries,
    filtered_data, views, expect>>

Views == {"treemap", "bar", "pie", "hist", "scatter"}

NotRendered == [shown |-> "none", rows |-> <<>>]

Warning == [shown |-> "warning", rows |-> <<>>]

Chart(rows) == [shown |-> "chart", rows |-> rows]

NoViews == [v \in Views |-> NotRendered]

Unset == [set |-> FALSE, value |-> <<>>]

Value(v) == [set |-> TRUE, value |-> v]

NoExpect == [set |-> FALSE, filtered |-> <<>>, views |-> NoViews]

Range(s) == {s[i] : i \in 1..Len(s)}

Min(a, b) == IF a <= b THEN a ELSE b

\* The CSVs of the model: a read that fails, a table under the expected
\* header, and short tables under the deviating headers.
Sources ==
  {[ok |-> FALSE, header |-> {}, rows |-> <<>>]}
  \cup [ok : {TRUE}, header : {CleanHeader}, rows : RowsUpTo(MaxRows)]
  \cup [ok : {TRUE}, header : OddHeaders, rows : RowsUpTo(MaxOddRows)]

\* The script's variables before a run has assigned them.
Fresh ==
  /\ pc' = "load_data"
  /\ exc' = "none"
  /\ rendered' = <<>>
  /\ data' = EmptyFrame
  /\ homeless_range' = <<0, 0>>
  /\ all_countries' = <<>>
  /\ selected_countries' = {}
  /\ filtered_data' = EmptyFrame
  /\ views' = NoViews

Init ==
  /\ source \in Sources
  /\ tieOrder \in TieOrders
  /\ cache = NotCached
  /\ fetches = 0
  /\ slider_state = Unset
  /\ multiselect_state = Unset
  /\ pc = "load_data"
  /\ exc = "none"
  /\ rendered = <<>>
  /\ data = EmptyFrame
  /\ homeless_range = <<0, 0>>
  /\ all_countries = <<>>
  /\ selected_countries = {}
  /\ filtered_data = EmptyFrame
  /\ views = NoViews
  /\ expect = NoExpect

\* An uncaught exception ends the run.
Raise(e) ==
  /\ pc' = "crashed"
  /\ exc' = e

\* data = load_data()
LoadData ==
  /\ pc = "load_data"
  /\ LET r == cache_data(cache, source)
     IN /\ cache' = r.cache
        /\ fetches' = IF r.fetched THEN Min(fetches + 1, MaxFetch) ELSE fetches
        /\ data' = r.cache.value
        /\ rendered' = rendered \o r.cache.messages
  /\ pc' = "slider"
  /\ UNCHANGED <<source, tieOrder, slider_state, multiselect_state, exc,
                 homeless_range, all_countries, selected_countries,
                 filtered_data, views, expect>>

\* homeless_range = st.sidebar.slider(..., int(min), int(max), (int(min), int(max))):
\* KeyError without the column, ValueError from int(nan) without rows, and
\* st.slider rejects a min_value that is not below max_value.
Slider ==
  /\ pc = "slider"
  /\ IF ~HasColumn(data, "total")
       THEN Raise("KeyError") /\ UNCHANGED <<homeless_range, rendered>>
       ELSE IF data.rows = <<>>
         THEN Raise("ValueError") /\ UNCHANGED <<homeless_range, rendered>>
       ELSE IF SeriesMin(data.rows) >= SeriesMax(data.rows)
         THEN Raise("StreamlitAPIException")
              /\ UNCHANGED <<homeless_range, rendered>>
         ELSE /\ homeless_range' =
                   IF slider_state.set THEN slider_state.value
                   ELSE <<SeriesMin(data.rows), SeriesMax(data.rows)>>
              /\ rendered' = Append(rendered, "slider")
              /\ pc' = "multiselect"
              /\ exc' = exc
  /\ UNCHANGED <<source, tieOrder, cache, fetches, slider_state,
                 multiselect_state, data, all_countries, selected_countries,
                 filtered_data, views, expect>>

\* all_countries = ["All"] + unique countries; selected_countries = multiselect
Multiselect ==
  /\ pc = "multiselect"
  /\ IF ~HasColumn(data, "country")
       THEN Raise("KeyError")
            /\ UNCHANGED <<all_countries, selected_countries, rendered>>
       ELSE /\ all_countries' = <<"All">> \o unique(CountryColumn(data.rows))
            /\ selected_countries' =
                 IF multiselect_state.set THEN multiselect_state.value
                 ELSE {"All"}
            /\ rendered' = Append(rendered, "multiselect")
            /\ pc' = "filter"
            /\ exc' = exc
  /\ UNCHANGED <<source, tieOrder, cache, fetches, slider_state,
                 multiselect_state, data, homeless_range, filtered_data, views,
                 expect>>

\* if "All" in selected_countries: filtered_data = ... else: filtered_data = ...
Filter ==
  /\ pc = "filter"
  /\ filtered_data' =
       [columns |-> data.columns,
        rows |-> filter(data.rows, homeless_range, selected_countries)]
  /\ pc' = "treemap"
  /\ UNCHANGED <<source, tieOrder, cache, fetches, slider_state,
                 multiselect_state, exc, rendered, data, homeless_range,
                 all_countries, selected_countries, views, expect>>

Show(v, what) ==
  /\ views' = [views EXCEPT ![v] = what]
  /\ rendered' = Append(rendered, v)

\* data = pd.DataFrame({...}); the treemap block
Treemap ==
  /\ pc = "treemap"
  /\ LET table == [columns |-> {Col("country", FALSE), Col("region", FALSE)},
                   rows |-> RegionTable]
     IN /\ data' = table
        /\ cache' = [cache EXCEPT !.value = rebind(cache.value, table)]
        /\ Show("treemap",
                IF empty(table) THEN Warning
                ELSE Chart(treemap_input(filtered_data.rows, table.rows)))
  /\ pc' = "bar"
  /\ UNCHANGED <<source, tieOrder, fetches, slider_state, multiselect_state,
                 exc, homeless_range, all_countries, selected_countries,
                 filtered_data, expect>>

\* What the bar block shows: px.bar and st.plotly_chart on homeless_by_country,
\* whatever it holds.
bar_shown(homeless_by_country) == Chart(homeless_by_country)

\* homeless_by_country = groupby, sum, sort_values, reset_index; the bar block
Bar ==
  /\ pc = "bar"
  /\ Show("bar", bar_shown(sort_values(groupby_sum(filtered_data.rows), tieOrder)))
  /\ pc' = "pie"
  /\ UNCHANGED <<source, tieOrder, cache, fetches, slider_state,
                 multiselect_state, exc, data, homeless_range, all_countries,
                 selected_countries, filtered_data, expect>>

\* selected_countries_data; selected_totals; the pie block
Pie ==
  /\ pc = "pie"
  /\ LET chosen == selected_countries_data(filtered_data.rows)
     IN Show("pie",
             IF empty([columns |-> filtered_data.columns, rows |-> chosen])
               THEN Warning ELSE Chart(groupby_sum(chosen)))
  /\ pc' = "hist"
  /\ UNCHANGED <<source, tieOrder, cache, fetches, slider_state,
                 multiselect_state, exc, data, homeless_range, all_countries,
                 selected_countries, filtered_data, expect>>

\* clean_data; the histogram block
Histogram ==
  /\ pc = "hist"
  /\ LET cleaned == clean_data(filtered_data.rows)
     IN Show("hist", IF cleaned = <<>> THEN Warning ELSE Chart(cleaned))
  /\ pc' = "scatter"
  /\ UNCHANGED <<source, tieOrder, cache, fetches, slider_state,
                 multiselect_state, exc, data, homeless_range, all_countries,
                 selected_countries, filtered_data, expect>>

\* the scatter block, the last one that reads the script's variables
Scatter ==
  /\ pc = "scatter"
  /\ Show("scatter",
          IF empty(filtered_data) THEN Warning ELSE Chart(filtered_data.rows))
  /\ pc' = "done"
  /\ UNCHANGED <<source, tieOrder, cache, fetches, slider_state,
                 multiselect_state, exc, data, homeless_range, all_countries,
                 selected_countries, filtered_data, expect>>

Ended == pc \in {"done", "crashed"}

\* The user drags the slider: Streamlit stores the value and reruns the script.
MoveSlider ==
  /\ Ended
  /\ "slider" \in Range(rendered)
  /\ \E lo, hi \in SeriesMin(cache.value.rows)..SeriesMax(cache.value.rows) :
       /\ lo <= hi
       /\ slider_state' = Value(<<lo, hi>>)
  /\ expect' = NoExpect
  /\ Fresh
  /\ UNCHANGED <<source, tieOrder, cache, fetches, multiselect_state>>

\* The user changes the multi-select: any subset of the options.
PickCountries ==
  /\ Ended
  /\ "multiselect" \in Range(rendered)
  /\ \E chosen \in SUBSET Range(all_countries) :
       multiselect_state' = Value(chosen)
  /\ expect' = NoExpect
  /\ Fresh
  /\ UNCHANGED <<source, tieOrder, cache, fetches, slider_state>>

\* The user reruns the script without touching a widget.
Rerun ==
  /\ Ended
  /\ expect' = IF pc = "done"
                 THEN [set |-> TRUE, filtered |-> filtered_data.rows, views |-> views]
                 ELSE NoExpect
  /\ Fresh
  /\ UNCHANGED <<source, tieOrder, cache, fetches, slider_state,
                 multiselect_state>>

\* A new browser session in the same process: widgets start unset.
NewSession ==
  /\ Ended
  /\ slider_state' = Unset
  /\ multiselect_state' = Unset
  /\ expect' = NoExpect
  /\ Fresh
  /\ UNCHANGED <<source, tieOrder, cache, fetches>>

Next ==
  \/ LoadData
  \/ Slider
  \/ Multiselect
  \/ Filter
  \/ Treemap
  \/ Bar
  \/ Pie
  \/ Histogram
  \/ Scatter
  \/ MoveSlider
  \/ PickCountries
  \/ Rerun
  \/ NewSession

Spec == Init /\ [][Next]_vars

(***************************************************************************)
(* The filter as a function of any dataset and any criteria: the slider    *)
(* only hands the script ranges inside [min, max] with lo <= hi, so the    *)
(* filter block is also run from every range and every selection.          *)
(***************************************************************************)
PipeInit ==
  /\ source \in [ok : {TRUE}, header : {CleanHeader}, rows : RowsUpTo(MaxRows)]
  /\ tieOrder \in TieOrders
  /\ cache = cache_data(NotCached, source).cache
  /\ fetches = 1
  /\ slider_state = Unset
  /\ multiselect_state = Unset
  /\ pc = "filter"
  /\ exc = "none"
  /\ rendered = <<"slider", "multiselect">>
  /\ data = cache.value
  /\ homeless_range \in (0..(MaxTotal + 1)) \X (0..(MaxTotal + 1))
  /\ all_countries = <<"All">> \o unique(CountryColumn(data.rows))
  /\ selected_countries \in SUBSET ({"All"} \cup Countries)
  /\ filtered_data = EmptyFrame
  /\ views = NoViews
  /\ expect = NoExpect

PipeNext == Filter

PipeSpec == PipeInit /\ [][PipeNext]_vars

(***************************************************************************)
(* What the claims are stated with.                                        *)
(***************************************************************************)

\* sub is the subsequence of rows at the positions K, in the order of rows.
IsSubsequenceAt(sub, rows, K) ==
  /\ Len(sub) = Cardinality(K)
  /\ \A i \in K : sub[Cardinality({j \in K : j <= i})] = rows[i]

InRange(r) == homeless_range[1] <= r.total /\ r.total <= homeless_range[2]

InRangeAt(rows) == {i \in 1..Len(rows) : InRange(rows[i])}

RECURSIVE SumAt(_, _)
SumAt(rows, K) ==
  IF K = {} THEN 0
  ELSE LET i == CHOOSE x \in K : TRUE
       IN rows[i].total + SumAt(rows, K \ {i})

CountryTotal(rows, c) == SumAt(rows, {i \in 1..Len(rows) : rows[i].country = c})

CountriesOf(rows) == {rows[i].country : i \in 1..Len(rows)}

FirstSeen(rows, c) ==
  CHOOSE i \in 1..Len(rows) :
    rows[i].country = c /\ \A j \in 1..(i - 1) : rows[j].country # c

\* The dataset with the records of each country combined into one record, at
\* the place of the first of them, whose total is their sum.
Merged(rows) ==
  LET keys == unique(CountryColumn(rows))
  IN [i \in 1..Len(keys) |->
        [country |-> keys[i], total |-> CountryTotal(rows, keys[i])]]

Filtered == pc \in {"treemap", "bar", "pie", "hist", "scatter", "done"}

Loaded == load_data(source).value

\* C1: when the fetch or parse fails, no run ends in an uncaught exception;
\* a finished run shows the diagnostic, and no chart on data.
C1_LoadFailureDegrades ==
  ~source.ok =>
    /\ pc # "crashed"
    /\ exc = "none"
    /\ pc = "done" =>
         /\ "error" \in Range(rendered)
         /\ \A v \in Views \ {"treemap"} : views[v].rows = <<>>

\* C2: the filtered view is the subsequence of the dataset, in row order, of
\* the records with minTotal <= total <= maxTotal that, unless the selection
\* is "ALL", have their country selected; with "ALL" its size is the number
\* of records in range, and with minTotal > maxTotal it is empty.
C2_FilteredView ==
  pc = "treemap" =>
    /\ IsSubsequenceAt(filtered_data.rows, data.rows,
         {i \in InRangeAt(data.rows) :
            "All" \in selected_countries
            \/ data.rows[i].country \in selected_countries})
    /\ "All" \in selected_countries =>
         Len(filtered_data.rows) = Cardinality(InRangeAt(data.rows))
    /\ homeless_range[1] > homeless_range[2] => filtered_data.rows = <<>>

\* C2 at work: records at both ends of the range are kept, one record is
\* dropped for its country and one for its total.
C2_Witness ==
  /\ pc = "treemap"
  /\ homeless_range[1] < homeless_range[2]
  /\ "All" \notin selected_countries
  /\ \E i, j \in 1..Len(filtered_data.rows) :
       /\ filtered_data.rows[i].total = homeless_range[1]
       /\ filtered_data.rows[j].total = homeless_range[2]
  /\ \E i \in 1..Len(data.rows) :
       InRange(data.rows[i]) /\ data.rows[i].country \notin selected_countries
  /\ Len(filtered_data.rows) = 2
  /\ Len(data.rows) = 3

\* The bar chart's frame holds one entry per country of the filtered view,
\* each with the sum of that country's totals, by falling total.
ByFallingTotal(h) ==
  /\ {h[i].country : i \in 1..Len(h)} = CountriesOf(filtered_data.rows)
  /\ Len(h) = Cardinality(CountriesOf(filtered_data.rows))
  /\ \A i \in 1..Len(h) : h[i].total = CountryTotal(filtered_data.rows, h[i].country)
  /\ \A i, j \in 1..Len(h) : i < j => h[i].total >= h[j].total

\* The build's sort keeps equal totals in the order it is given them.
StableSort == \A i \in DOMAIN tieOrder : tieOrder[i] = i

\* C3 as stated, the sort being stable as the claim has it: one (country,
\* totalSum) pair per country of the filtered view, by falling totalSum,
\* countries of equal sums in the order in which the filtered view first
\* shows them.
C3_StableFirstSeen ==
  (StableSort /\ views["bar"].shown = "chart") =>
    LET h == views["bar"].rows
    IN /\ ByFallingTotal(h)
       /\ \A i, j \in 1..Len(h) :
            (i < j /\ h[i].total = h[j].total) =>
              FirstSeen(filtered_data.rows, h[i].country)
                < FirstSeen(filtered_data.rows, h[j].country)

\* C3 amended: one (country, totalSum) pair per country of the filtered
\* view, by falling totalSum; nothing is promised about equal sums.
C3_ByFallingTotal ==
  views["bar"].shown = "chart" => ByFallingTotal(views["bar"].rows)

\* C3 at work: the sort moved the later key in front of the earlier one.
C3_Witness ==
  /\ views["bar"].shown = "chart"
  /\ Len(views["bar"].rows) = 2
  /\ views["bar"].rows[1].country = "Japan"
  /\ views["bar"].rows[1].total > views["bar"].rows[2].total

\* C4 as stated: the treemap's input has a row for a country iff the country
\* is in the filtered view and in the region table.
C4_TreemapIsJoin ==
  views["treemap"].shown # "none" =>
    {views["treemap"].rows[i].country : i \in 1..Len(views["treemap"].rows)}
      = CountriesOf(filtered_data.rows)
          \cap {RegionTable[i].country : i \in 1..Len(RegionTable)}

\* C4 amended: the treemap's input is the region table itself, all nine
\* rows, whatever the dataset and the filters are.
C4_TreemapIsRegionTable ==
  views["treemap"].shown # "none" =>
    /\ views["treemap"].shown = "chart"
    /\ views["treemap"].rows = RegionTable
    /\ Len(views["treemap"].rows) = 9

\* C4 at work: the filters removed every row, and the treemap shows Japan.
C4_Witness ==
  /\ pc = "done"
  /\ "Japan" \in CountriesOf(cache.value.rows)
  /\ filtered_data.rows = <<>>
  /\ \E i \in 1..Len(views["treemap"].rows) :
       views["treemap"].rows[i].country = "Japan"

\* C5: a view whose data has no rows shows its "no data" state and does not
\* call the chart routine; no view raises.
C5_EmptyViewsShowNoData ==
  /\ \A v \in {"bar", "pie", "hist", "scatter"} :
       views[v].shown = "chart" => views[v].rows # <<>>
  /\ (Filtered /\ filtered_data.rows = <<>>) => pc # "crashed"

\* C6: a table that lacks a required column makes the loader fail, and the
\* run halts before any widget or chart is rendered: such a run renders
\* nothing and never reaches its end.
C6_MissingColumnHalts ==
  (source.ok /\ ~(CleanHeader \subseteq strip(source.header))) =>
    /\ rendered = <<>>
    /\ pc # "done"

\* C7: within one process the CSV is fetched at most once; once the cache
\* holds the loader's result, no run fetches.
C7_FetchAtMostOnce ==
  /\ fetches <= 1
  /\ cache.present => fetches = 1

\* C7 at work: a run finished after both widgets were changed, one fetch.
C7_Witness ==
  /\ pc = "done"
  /\ slider_state.set
  /\ multiselect_state.set
  /\ "All" \notin selected_countries
  /\ fetches = 1

\* C8: sum-by-country of rows with several records per country equals
\* sum-by-country of the rows with those records first combined into one.
C8_MergeInvariant ==
  /\ views["bar"].shown = "chart" =>
       views["bar"].rows
         = sort_values(groupby_sum(Merged(filtered_data.rows)), tieOrder)
  /\ views["pie"].shown = "chart" =>
       views["pie"].rows
         = groupby_sum(Merged(selected_countries_data(filtered_data.rows)))

\* C8 at work: the filtered view holds two records of one country and one of
\* another, and both charts were drawn.
C8_Witness ==
  /\ views["bar"].shown = "chart"
  /\ views["pie"].shown = "chart"
  /\ Len(filtered_data.rows) = 3
  /\ Len(views["bar"].rows) = 2
  /\ \E i, j \in 1..3 :
       /\ i # j
       /\ filtered_data.rows[i].country = "Japan"
       /\ filtered_data.rows[j].country = "Japan"

\* C9: the loaded dataset keeps its rows and their order through every run;
\* a run hands its blocks the dataset as loaded, and a rerun under the same
\* criteria yields the same filtered view and the same chart inputs.
C9_DatasetNeverChanged ==
  /\ cache.present => cache.value = Loaded
  /\ pc \in {"slider", "multiselect", "filter", "treemap"} => data = Loaded
  /\ Filtered => \A i \in 1..Len(filtered_data.rows) :
                   \E k \in 1..Len(cache.value.rows) :
                     filtered_data.rows[i] = cache.value.rows[k]
  /\ (pc = "done" /\ expect.set) =>
       /\ filtered_data.rows = expect.filtered
       /\ views = expect.views

\* C9 at work: a rerun finished under criteria that drop some rows.
C9_Witness ==
  /\ pc = "done"
  /\ expect.set
  /\ slider_state.set
  /\ filtered_data.rows # <<>>
  /\ Len(filtered_data.rows) < Len(cache.value.rows)
  /\ data # cache.value

\* C10: the country restriction applies iff "All" is not selected: "All"
\* with other entries filters as "All" alone, by range only, and the empty
\* selection yields the empty view.
C10_AllSwitchesRestrictionOff ==
  Filtered =>
    /\ "All" \in selected_countries =>
         IsSubsequenceAt(filtered_data.rows, cache.value.rows,
                         InRangeAt(cache.value.rows))
    /\ "All" \notin selected_countries =>
         IsSubsequenceAt(filtered_data.rows, cache.value.rows,
           {i \in InRangeAt(cache.value.rows) :
              cache.value.rows[i].country \in selected_countries})
    /\ selected_countries = {} => filtered_data.rows = <<>>

\* C10 at work: "All" and Japan are selected, and a row of Atlantis is kept.
C10_Witness ==
  /\ pc = "done"
  /\ selected_countries = {"All", "Japan"}
  /\ "Atlantis" \in CountriesOf(filtered_data.rows)
  /\ "Japan" \in CountriesOf(filtered_data.rows)

====
